---- MODULE Spec2Model ----
(***************************************************************************)
(* A model of backend/llm/openai.go: the OpenAI provider client.           *)
(*                                                                         *)
(* NewOpenAIClient builds a client; GenerateCode builds a two-message      *)
(* chat request, marshals it, issues one HTTP POST through the client's    *)
(* http.Client and turns the response into (text, error).                  *)
(*                                                                         *)
(* The provider, the network, the caller's context and the passing of time *)
(* are the environment.  net/http is modelled by its documented contract:  *)
(* a request made with NewRequestWithContext is aborted with the context's *)
(* error once that context is done, and a client whose Timeout is not zero *)
(* aborts a request (the reading of the body included) once Timeout has    *)
(* elapsed since Do was called.                                            *)
(***************************************************************************)
EXTENDS Integers, Sequences, FiniteSets, TLC

----------------------------------------------------------------------------
(* Bounds of the model *)

\* The longest prompt, in characters.
MaxPromptLen == 1
\* The longest choices list of a response body.
MaxChoices == 2
\* GenerateCode invocations in one behaviour.
MaxInvocations == 2
\* The seconds one Tick lets pass at most.
TickSeconds == 30
\* The clock of an outstanding call stops here (it would run forever).
MaxElapsed == 120
\* A caller's deadline longer than the client's timeout, in seconds.
LongDeadline == 90

(* Program constants *)

\* http.Client{Timeout: 60 * time.Second}
ClientTimeout == 60
\* context.WithTimeout(context.Background(), 30*time.Second) of the test
TestDeadline == 30
\* http.StatusOK
StatusOK == 200

----------------------------------------------------------------------------
(* Strings.  A prompt is a sequence of characters; "0xFF" stands for a byte *)
(* that is not valid UTF-8 (a Go string may hold any bytes), "U+FFFD" for   *)
(* the Unicode replacement character.                                       *)

Chars == {"a", " ", "<", "0xFF"}

Prompts == UNION {[1..n -> Chars] : n \in 0..MaxPromptLen}

\* The const systemPrompt, abbreviated to three of its characters: it is
\* plain text that holds '<' and '>' (the HTML template of the code block).
systemPrompt == <<"Y", "<", ">">>

Goroutines == {"g1", "g2"}

ApiKeys == {"", "sk-test"}
Models == {"", "gpt-3.5-turbo"}

\* A context.Context: nil, or a context with a deadline in seconds after the
\* invocation starts (0: none) that its owner may have cancelled.
NilCtx == [nil |-> TRUE, deadline |-> 0, cancelled |-> FALSE]
Background == [nil |-> FALSE, deadline |-> 0, cancelled |-> FALSE]
Deadlines == {0, TestDeadline, LongDeadline}
Contexts ==
    {NilCtx} \cup
    {[nil |-> FALSE, deadline |-> d, cancelled |-> c] :
        d \in Deadlines, c \in BOOLEAN}

----------------------------------------------------------------------------
(* encoding/json, as far as GenerateCode uses it *)

\* json.Marshal of one character of a string: HTML characters are written as
\* \u escapes, and a byte that is not valid UTF-8 is written as the escape of
\* the replacement character.
EncodeChar(c) ==
    CASE c = "<" -> "\\u003c"
      [] c = ">" -> "\\u003e"
      [] c = "0xFF" -> "\\ufffd"
      [] OTHER -> c

EncodeString(s) == [k \in 1..Len(s) |-> EncodeChar(s[k])]

\* json.Marshal(request): the wire form of an openAIRequest, its fields under
\* their json tags.
Marshal(request) ==
    [model |-> request.Model,
     messages |-> [k \in 1..Len(request.Messages) |->
                      [role |-> request.Messages[k].Role,
                       content |-> EncodeString(request.Messages[k].Content)]]]

----------------------------------------------------------------------------
(* Response bodies.  A body is raw bytes; it is modelled by what a JSON     *)
(* decoder finds in it: text that is not JSON, the JSON value null, a JSON  *)
(* array, or a JSON object, of which the fields "choices" and "error" are   *)
(* absent, null, of the wrong JSON type ("badtype": a string), or as in     *)
(* openAIResponse.                                                          *)

\* The content of a choice's message ("" also stands for a choice without a
\* message or without content).
Contents == {"", " x "}
ErrMessages == {"", "quota"}

ChoiceLists == UNION {[1..n -> Contents] : n \in 0..MaxChoices}

ChoicesFields ==
    {[tag |-> t, items |-> <<>>] : t \in {"absent", "null", "badtype"}} \cup
    {[tag |-> "list", items |-> l] : l \in ChoiceLists}

ErrorFields ==
    {[tag |-> t, message |-> ""] : t \in {"absent", "null", "badtype"}} \cup
    {[tag |-> "object", message |-> m] : m \in ErrMessages}

NoFields ==
    [choices |-> [tag |-> "absent", items |-> <<>>],
     error |-> [tag |-> "absent", message |-> ""]]

Bodies ==
    {[kind |-> k, choices |-> NoFields.choices, error |-> NoFields.error] :
        k \in {"text", "null", "array"}} \cup
    {[kind |-> "object", choices |-> c, error |-> e] :
        c \in ChoicesFields, e \in ErrorFields}

NoBody == [kind |-> "none", choices |-> NoFields.choices, error |-> NoFields.error]

Statuses == {StatusOK, 204, 500}

\* json.Unmarshal(body, &openAIResp): fails on text that is not JSON, on a
\* JSON value that is no object (null leaves the struct at its zero value),
\* and on a field of the wrong JSON type; a null or absent field leaves the
\* struct's field nil.
Unmarshal(body) ==
    IF \/ body.kind \in {"text", "array"}
       \/ body.kind = "object" /\ body.choices.tag = "badtype"
       \/ body.kind = "object" /\ body.error.tag = "badtype"
    THEN [ok |-> FALSE, Choices |-> <<>>, Error |-> [nil |-> TRUE, Message |-> ""]]
    ELSE [ok |-> TRUE,
          Choices |-> IF body.choices.tag = "list"
                      THEN [k \in 1..Len(body.choices.items) |->
                               [Message |-> [Content |-> body.choices.items[k]]]]
                      ELSE <<>>,
          Error |-> IF body.error.tag = "object"
                    THEN [nil |-> FALSE, Message |-> body.error.message]
                    ELSE [nil |-> TRUE, Message |-> ""]]

----------------------------------------------------------------------------
(* Errors: fmt.Errorf's results, by the format string that made them *)

Err(kind, cause, status, body, message) ==
    [kind |-> kind, cause |-> cause, status |-> status, body |-> body,
     message |-> message]

Nil == Err("nil", "", 0, NoBody, "")
\* "failed to create request: %w"
ErrCreateRequest == Err("create_request", "nil Context", 0, NoBody, "")
\* "failed to call OpenAI API: %w"
ErrCall(cause) == Err("call", cause, 0, NoBody, "")
\* "failed to read response: %w"
ErrRead(cause) == Err("read", cause, 0, NoBody, "")
\* "OpenAI API error (status %d) %s"
ErrStatus(status, body) == Err("status", "", status, body, "")
\* "failed to parse response: %w"
ErrParse == Err("parse", "", 0, NoBody, "")
\* "OpenAI API error: %s"
ErrProvider(message) == Err("provider", "", 0, NoBody, message)
\* "no response from OpenAI"
ErrNoResponse == Err("empty", "", 0, NoBody, "")

----------------------------------------------------------------------------
(* The client *)

NoClient == [httpClient |-> [Timeout |-> 0], apiKey |-> "", model |-> ""]

\* NewOpenAIClient without the check of the key: a client is built whatever
\* the key.
NewOpenAIClientNoCheck(apiKey, model) ==
    [panic |-> FALSE,
     client |-> [httpClient |-> [Timeout |-> ClientTimeout],
                 apiKey |-> apiKey,
                 model |-> IF model = "" THEN "gpt-4" ELSE model]]

\* NewOpenAIClient of openai.go, lines 74-90: panics on an empty key, defaults
\* an empty model to "gpt-4", and gives the HTTP client a 60 second timeout.
NewOpenAIClient(apiKey, model) ==
    IF apiKey = ""
    THEN [panic |-> TRUE, client |-> NoClient]
    ELSE [panic |-> FALSE,
          client |-> [httpClient |-> [Timeout |-> ClientTimeout],
                      apiKey |-> apiKey,
                      model |-> IF model = "" THEN "gpt-4" ELSE model]]

\* The second NewOpenAIClient of openai.go, lines 164-179: panics on an empty
\* key, leaves an empty model empty, and builds &http.Client{}, whose Timeout
\* is zero (no timeout).
NewOpenAIClient2(apiKey, model) ==
    IF apiKey = ""
    THEN [panic |-> TRUE, client |-> NoClient]
    ELSE [panic |-> FALSE,
          client |-> [httpClient |-> [Timeout |-> 0],
                      apiKey |-> apiKey,
                      model |-> IF model = "" THEN "" ELSE model]]

Constructors == {"NewOpenAIClient", "NewOpenAIClient2"}

----------------------------------------------------------------------------
(* GenerateCode, in the pieces between which it waits for the network *)

EmptyWire == [model |-> "", messages |-> <<>>]

NoReq ==
    [ctx |-> "none", method |-> "", url |-> "", body |-> EmptyWire,
     header |-> [ContentType |-> "", Authorization |-> <<>>]]

NoResp == [StatusCode |-> 0, body |-> NoBody, read |-> FALSE]

\* A goroutine that is not in GenerateCode.
Idle ==
    [pc |-> "idle", prompt |-> <<>>, ctx |-> Background, req |-> NoReq,
     resp |-> NoResp, text |-> "", err |-> Nil, elapsed |-> 0, calls |-> 0]

\* BuildRequest with the two messages in the other order.
BuildRequestUserFirst(model, prompt) ==
    [Model |-> model,
     Messages |-> << [Role |-> "user", Content |-> prompt],
                     [Role |-> "system", Content |-> systemPrompt] >>]

\* Lines 93-105: the openAIRequest.
BuildRequest(model, prompt) ==
    [Model |-> model,
     Messages |-> << [Role |-> "system", Content |-> systemPrompt],
                     [Role |-> "user", Content |-> prompt] >>]

\* http.NewRequest in the place of http.NewRequestWithContext: the request
\* carries context.Background() and not the caller's context.
NewRequestNoContext(ctx, method, url, body) ==
    IF ctx.nil
    THEN [ok |-> FALSE, req |-> NoReq]
    ELSE [ok |-> TRUE,
          req |-> [ctx |-> "background", method |-> method, url |-> url,
                   body |-> body,
                   header |-> [ContentType |-> "", Authorization |-> <<>>]]]

\* Lines 114-117: http.NewRequestWithContext fails on a nil context; the
\* request it returns refers to the caller's context.
NewRequestWithContext(ctx, method, url, body) ==
    IF ctx.nil
    THEN [ok |-> FALSE, req |-> NoReq]
    ELSE [ok |-> TRUE,
          req |-> [ctx |-> "caller", method |-> method, url |-> url,
                   body |-> body,
                   header |-> [ContentType |-> "", Authorization |-> <<>>]]]

\* Lines 119-120: req.Header.Set, twice.
SetHeaders(req, apiKey) ==
    [req EXCEPT !.header = [ContentType |-> "application/json",
                            Authorization |-> <<"Bearer ", apiKey>>]]

\* GenerateCode with the HTTP client built again for the request:
\* o.httpClient = &http.Client{}.
ReceiverRebuilt(o) == [o EXCEPT !.httpClient = [Timeout |-> 0]]

\* Lines 92-152: the receiver o after GenerateCode. The method reads o.model,
\* o.apiKey and o.httpClient and assigns to no field of o.
ReceiverAfter(o) == o

\* Lines 92-122: from the entry of GenerateCode to the call of
\* o.httpClient.Do(req), or to the return of the request's failure.
Begin(o, prompt, ctx) ==
    LET request == BuildRequest(o.model, prompt)
        jsonData == Marshal(request)
        made == NewRequestWithContext(ctx, "POST",
                    "https://api.openai.com/v1/chat/completions", jsonData)
    IN  IF ~made.ok
        THEN [Idle EXCEPT !.pc = "returned", !.prompt = prompt, !.ctx = ctx,
                          !.text = "", !.err = ErrCreateRequest]
        ELSE [Idle EXCEPT !.pc = "do", !.prompt = prompt, !.ctx = ctx,
                          !.req = SetHeaders(made.req, o.apiKey),
                          !.calls = 1]

\* OnDoError with a retry: the request is sent again.
OnDoErrorRetry(g, cause) ==
    [g EXCEPT !.pc = "do", !.calls = @ + 1]

\* Lines 122-126: Do returned an error.
OnDoError(g, cause) ==
    [g EXCEPT !.pc = "returned", !.text = "", !.err = ErrCall(cause),
              !.elapsed = 0]

\* Line 122: Do returned a response (its status line and headers).
OnDoResponse(g, status) ==
    [g EXCEPT !.pc = "read", !.resp = [StatusCode |-> status, body |-> NoBody,
                                       read |-> FALSE]]

\* Lines 129-132: io.ReadAll returned an error.
OnReadError(g, cause) ==
    [g EXCEPT !.pc = "returned", !.text = "", !.err = ErrRead(cause),
              !.elapsed = 0]

\* HandleResponse with the body parsed before the status is checked.
HandleResponseParseFirst(StatusCode, body) ==
    LET openAIResp == Unmarshal(body)
    IN  IF ~openAIResp.ok
        THEN [text |-> "", err |-> ErrParse]
        ELSE IF StatusCode # StatusOK
        THEN [text |-> "", err |-> ErrStatus(StatusCode, body)]
        ELSE IF ~openAIResp.Error.nil
        THEN [text |-> "", err |-> ErrProvider(openAIResp.Error.Message)]
        ELSE IF Len(openAIResp.Choices) = 0
        THEN [text |-> "", err |-> ErrNoResponse]
        ELSE [text |-> openAIResp.Choices[1].Message.Content, err |-> Nil]

\* HandleResponse with the choices looked at before the error object.
HandleResponseChoicesFirst(StatusCode, body) ==
    IF StatusCode # StatusOK
    THEN [text |-> "", err |-> ErrStatus(StatusCode, body)]
    ELSE LET openAIResp == Unmarshal(body)
         IN  IF ~openAIResp.ok
             THEN [text |-> "", err |-> ErrParse]
             ELSE IF Len(openAIResp.Choices) > 0
             THEN [text |-> openAIResp.Choices[1].Message.Content, err |-> Nil]
             ELSE IF ~openAIResp.Error.nil
             THEN [text |-> "", err |-> ErrProvider(openAIResp.Error.Message)]
             ELSE [text |-> "", err |-> ErrNoResponse]

\* HandleResponse without the failure on an empty choices list: an empty text
\* is returned in its place.
HandleResponseEmptyText(StatusCode, body) ==
    IF StatusCode # StatusOK
    THEN [text |-> "", err |-> ErrStatus(StatusCode, body)]
    ELSE LET openAIResp == Unmarshal(body)
         IN  IF ~openAIResp.ok
             THEN [text |-> "", err |-> ErrParse]
             ELSE IF ~openAIResp.Error.nil
             THEN [text |-> "", err |-> ErrProvider(openAIResp.Error.Message)]
             ELSE IF Len(openAIResp.Choices) = 0
             THEN [text |-> "", err |-> Nil]
             ELSE [text |-> openAIResp.Choices[1].Message.Content, err |-> Nil]

\* HandleResponse returning the last choice and not the first.
HandleResponseLastChoice(StatusCode, body) ==
    IF StatusCode # StatusOK
    THEN [text |-> "", err |-> ErrStatus(StatusCode, body)]
    ELSE LET openAIResp == Unmarshal(body)
         IN  IF ~openAIResp.ok
             THEN [text |-> "", err |-> ErrParse]
             ELSE IF ~openAIResp.Error.nil
             THEN [text |-> "", err |-> ErrProvider(openAIResp.Error.Message)]
             ELSE IF Len(openAIResp.Choices) = 0
             THEN [text |-> "", err |-> ErrNoResponse]
             ELSE [text |-> openAIResp.Choices[Len(openAIResp.Choices)].Message.Content,
                   err |-> Nil]

\* Lines 134-151: from the status check to the return, the body read.
HandleResponse(StatusCode, body) ==
    IF StatusCode # StatusOK
    THEN [text |-> "", err |-> ErrStatus(StatusCode, body)]
    ELSE LET openAIResp == Unmarshal(body)
         IN  IF ~openAIResp.ok
             THEN [text |-> "", err |-> ErrParse]
             ELSE IF ~openAIResp.Error.nil
             THEN [text |-> "", err |-> ErrProvider(openAIResp.Error.Message)]
             ELSE IF Len(openAIResp.Choices) = 0
             THEN [text |-> "", err |-> ErrNoResponse]
             ELSE [text |-> openAIResp.Choices[1].Message.Content, err |-> Nil]

\* Lines 129-151: io.ReadAll returned the body.
OnBody(g, body) ==
    LET out == HandleResponse(g.resp.StatusCode, body)
    IN  [g EXCEPT !.pc = "returned",
                  !.resp = [StatusCode |-> g.resp.StatusCode, body |-> body,
                            read |-> TRUE],
                  !.text = out.text, !.err = out.err, !.elapsed = 0]

----------------------------------------------------------------------------
(* State *)

VARIABLES
    newArgs,        \* the arguments main gave NewOpenAIClient
    clientState,    \* "none", "ready" or "panicked"
    client,         \* the *OpenAIClient NewOpenAIClient returned
    inv,            \* inv[i]: goroutine i's invocation of GenerateCode
    invocations     \* GenerateCode invocations so far

vars == <<newArgs, clientState, client, inv, invocations>>

\* No call of NewOpenAIClient yet.
NoArgs == [which |-> "", apiKey |-> "", model |-> ""]

Init ==
    /\ newArgs = NoArgs
    /\ clientState = "none"
    /\ client = NoClient
    /\ inv = [i \in Goroutines |-> Idle]
    /\ invocations = 0

----------------------------------------------------------------------------
(* net/http and context, by their contracts *)

Min(S) == CHOOSE x \in S : \A y \in S : x <= y

\* ctx.Done() is closed: cancelled, or the deadline passed.
CtxDone(ctx, elapsed) ==
    ~ctx.nil /\ (ctx.cancelled \/ (ctx.deadline > 0 /\ elapsed >= ctx.deadline))

\* The context the request carries.
RequestCtx(g) == IF g.req.ctx = "caller" THEN g.ctx ELSE Background

\* The transport aborts the request: its context is done.
Aborted(g) == CtxDone(RequestCtx(g), g.elapsed)

\* http.Client.Timeout has elapsed since Do (zero: no timeout).
TimedOut(g) ==
    client.httpClient.Timeout > 0 /\ g.elapsed >= client.httpClient.Timeout

Outstanding(g) == g.pc \in {"do", "read"}

\* Why a pending Do or ReadAll may fail now.
Causes(g) ==
    {"network"} \cup (IF Aborted(g) THEN {"context"} ELSE {})
                \cup (IF TimedOut(g) THEN {"timeout"} ELSE {})

\* The next instant at which a timer of the call fires.
NextTimer(g) ==
    Min({MaxElapsed}
        \cup {d \in {g.ctx.deadline, client.httpClient.Timeout} : d > g.elapsed})

----------------------------------------------------------------------------
(* Actions *)

\* main: NewOpenAIClient(apiKey, model), by either constructor of the file.
Construct(which, apiKey, model) ==
    /\ clientState = "none"
    /\ LET made == IF which = "NewOpenAIClient"
                   THEN NewOpenAIClient(apiKey, model)
                   ELSE NewOpenAIClient2(apiKey, model)
       IN  /\ clientState' = IF made.panic THEN "panicked" ELSE "ready"
           /\ client' = made.client
    /\ newArgs' = [which |-> which, apiKey |-> apiKey, model |-> model]
    /\ UNCHANGED <<inv, invocations>>

\* Goroutine i calls o.GenerateCode(ctx, prompt) and runs it to the call of Do.
Call(i, prompt, ctx) ==
    /\ clientState = "ready"
    /\ inv[i].pc = "idle"
    /\ invocations < MaxInvocations
    /\ inv' = [inv EXCEPT ![i] = Begin(client, prompt, ctx)]
    /\ invocations' = invocations + 1
    /\ client' = ReceiverAfter(client)
    /\ UNCHANGED <<newArgs, clientState>>

\* o.httpClient.Do(req) returns an error: the network failed, the request's
\* context is done, or the client's timeout has elapsed.
DoFails(i, cause) ==
    /\ inv[i].pc = "do"
    /\ cause \in Causes(inv[i])
    /\ inv' = [inv EXCEPT ![i] = OnDoError(inv[i], cause)]
    /\ UNCHANGED <<newArgs, clientState, client, invocations>>

\* o.httpClient.Do(req) returns the provider's response.
DoReturns(i, status) ==
    /\ inv[i].pc = "do"
    /\ ~Aborted(inv[i]) /\ ~TimedOut(inv[i])
    /\ inv' = [inv EXCEPT ![i] = OnDoResponse(inv[i], status)]
    /\ UNCHANGED <<newArgs, clientState, client, invocations>>

\* io.ReadAll(resp.Body) returns an error.
ReadFails(i, cause) ==
    /\ inv[i].pc = "read"
    /\ cause \in Causes(inv[i])
    /\ inv' = [inv EXCEPT ![i] = OnReadError(inv[i], cause)]
    /\ UNCHANGED <<newArgs, clientState, client, invocations>>

\* io.ReadAll(resp.Body) returns the body, and GenerateCode runs to its return.
ReadReturns(i, body) ==
    /\ inv[i].pc = "read"
    /\ ~Aborted(inv[i]) /\ ~TimedOut(inv[i])
    /\ inv' = [inv EXCEPT ![i] = OnBody(inv[i], body)]
    /\ UNCHANGED <<newArgs, clientState, client, invocations>>

\* GenerateCode has returned (text, err) to its caller, which goes on.
Return(i) ==
    /\ inv[i].pc = "returned"
    /\ inv' = [inv EXCEPT ![i] = Idle]
    /\ UNCHANGED <<newArgs, clientState, client, invocations>>

\* The caller cancels the context of its outstanding call.
Cancel(i) ==
    /\ Outstanding(inv[i])
    /\ ~inv[i].ctx.cancelled
    /\ inv' = [inv EXCEPT ![i].ctx.cancelled = TRUE]
    /\ UNCHANGED <<newArgs, clientState, client, invocations>>

\* Time passes for an outstanding call, up to its next timer; a timer that
\* has fired is served before more time passes.
Tick(i) ==
    /\ Outstanding(inv[i])
    /\ ~Aborted(inv[i]) /\ ~TimedOut(inv[i])
    /\ inv[i].elapsed < MaxElapsed
    /\ inv' = [inv EXCEPT ![i].elapsed =
                  Min({inv[i].elapsed + TickSeconds, NextTimer(inv[i])})]
    /\ UNCHANGED <<newArgs, clientState, client, invocations>>

\* The goroutines that call GenerateCode in Spec.
Callers == {"g1"}

Step(i) ==
    \/ \E prompt \in Prompts, ctx \in Contexts : Call(i, prompt, ctx)
    \/ \E cause \in {"network", "context", "timeout"} : DoFails(i, cause)
    \/ \E status \in Statuses : DoReturns(i, status)
    \/ \E cause \in {"network", "context", "timeout"} : ReadFails(i, cause)
    \/ \E body \in Bodies : ReadReturns(i, body)
    \/ Return(i)
    \/ Cancel(i)
    \/ Tick(i)

Next ==
    \/ \E which \in Constructors, apiKey \in ApiKeys, model \in Models :
          Construct(which, apiKey, model)
    \/ \E i \in Callers : Step(i)

Spec == Init /\ [][Next]_vars

\* The scheduler runs a goroutine whose Do or ReadAll has been aborted through
\* its context: the abort is delivered.
Fairness ==
    \A i \in Callers : /\ WF_vars(DoFails(i, "context"))
                       /\ WF_vars(ReadFails(i, "context"))

SpecFair == Spec /\ Fairness

----------------------------------------------------------------------------
(* What the provider reads: a JSON decoder's view of the request body *)

DecodeChar(t) ==
    CASE t = "\\u003c" -> "<"
      [] t = "\\u003e" -> ">"
      [] t = "\\ufffd" -> "U+FFFD"
      [] OTHER -> t

DecodeString(w) == [k \in 1..Len(w) |-> DecodeChar(w[k])]

\* The message sequence the body of request req carries.
SentMessages(req) ==
    [k \in 1..Len(req.body.messages) |->
        [role |-> req.body.messages[k].role,
         content |-> DecodeString(req.body.messages[k].content)]]

ValidUTF8(s) == \A k \in 1..Len(s) : s[k] # "0xFF"

\* s with every byte that is not valid UTF-8 replaced by U+FFFD.
ToValidUTF8(s) == [k \in 1..Len(s) |-> IF s[k] = "0xFF" THEN "U+FFFD" ELSE s[k]]

\* strings.TrimSpace(s) = ""
IsBlank(s) == \A k \in 1..Len(s) : s[k] = " "

Returned(g) == g.pc = "returned"
Failed(g) == g.err # Nil

\* The body parses as an openAIResponse (json.Unmarshal returns nil).
Parses(body) ==
    \/ body.kind = "null"
    \/ body.kind = "object" /\ body.choices.tag # "badtype"
                            /\ body.error.tag # "badtype"

HasErrorObject(body) == body.kind = "object" /\ body.error.tag = "object"
HasChoices(body) ==
    body.kind = "object" /\ body.choices.tag = "list"
                         /\ Len(body.choices.items) > 0

----------------------------------------------------------------------------
(* C1 *)

----------------------------------------------------------------------------
(* C2 *)

\* C2: a prompt that is empty or only whitespace makes no network call, and
\* the invocation fails.
C2_BlankPromptMakesNoCall ==
    \A i \in Goroutines :
        inv[i].pc # "idle" /\ IsBlank(inv[i].prompt) =>
            /\ inv[i].calls = 0
            /\ ~Outstanding(inv[i])
            /\ Returned(inv[i]) => Failed(inv[i])

----------------------------------------------------------------------------
(* C3 *)

\* C3: an invocation that got past request construction has called Do exactly
\* once, while the call is outstanding and when it has returned, whatever the
\* outcome; one that failed before has called it never.
C3_ExactlyOneCall ==
    \A i \in Goroutines :
        /\ Outstanding(inv[i]) => inv[i].calls = 1
        /\ Returned(inv[i]) =>
              inv[i].calls = IF inv[i].err.kind = "create_request" THEN 0 ELSE 1

\* A second invocation of the same goroutine has returned a transport failure
\* with one call made.
C3_Witness ==
    \E i \in Goroutines :
        /\ Returned(inv[i]) /\ inv[i].err.kind = "call" /\ inv[i].calls = 1
        /\ invocations = 2

----------------------------------------------------------------------------
(* C4 *)

\* C4: a response with a status other than 200 whose body was read yields the
\* status error carrying that status and the raw body, whatever the body.
C4_StatusBeforeParse ==
    \A i \in Goroutines :
        Returned(inv[i]) /\ inv[i].resp.read
                         /\ inv[i].resp.StatusCode # StatusOK =>
            /\ inv[i].err = ErrStatus(inv[i].resp.StatusCode, inv[i].resp.body)
            /\ inv[i].text = ""

\* A 500 response returned whose body is JSON with a non-empty choices list.
C4_Witness ==
    \E i \in Goroutines :
        /\ Returned(inv[i]) /\ inv[i].resp.read
        /\ inv[i].resp.StatusCode = 500
        /\ HasChoices(inv[i].resp.body)
        /\ inv[i].err.kind = "status"

----------------------------------------------------------------------------
(* C5 *)

\* C5: for a 200 response whose body parses and holds an error object, the
\* result is the provider error with that object's message and no text,
\* whether choices is empty or not.
C5_ErrorBeforeChoices ==
    \A i \in Goroutines :
        Returned(inv[i]) /\ inv[i].resp.read
                         /\ inv[i].resp.StatusCode = StatusOK
                         /\ Parses(inv[i].resp.body)
                         /\ HasErrorObject(inv[i].resp.body) =>
            /\ inv[i].err = ErrProvider(inv[i].resp.body.error.message)
            /\ inv[i].text = ""

\* A 200 response returned whose body holds an error object and a non-empty
\* choices list.
C5_Witness ==
    \E i \in Goroutines :
        /\ Returned(inv[i]) /\ inv[i].resp.read
        /\ inv[i].resp.StatusCode = StatusOK
        /\ HasErrorObject(inv[i].resp.body)
        /\ HasChoices(inv[i].resp.body)
        /\ inv[i].resp.body.choices.items[1] # ""

----------------------------------------------------------------------------
(* C6 *)

\* C6: for a 200 response whose body parses, holds no error object and holds
\* no choices field or an empty choices list, the result is the error
\* "no response from OpenAI" and no text.
C6_NoChoicesIsNoResponse ==
    \A i \in Goroutines :
        Returned(inv[i]) /\ inv[i].resp.read
                         /\ inv[i].resp.StatusCode = StatusOK
                         /\ Parses(inv[i].resp.body)
                         /\ ~HasErrorObject(inv[i].resp.body)
                         /\ ~HasChoices(inv[i].resp.body) =>
            /\ inv[i].err = ErrNoResponse
            /\ inv[i].text = ""

\* A 200 response returned whose body is a JSON object without a choices
\* field.
C6_Witness ==
    \E i \in Goroutines :
        /\ Returned(inv[i]) /\ inv[i].resp.read
        /\ inv[i].resp.StatusCode = StatusOK
        /\ inv[i].resp.body.kind = "object"
        /\ inv[i].resp.body.choices.tag = "absent"
        /\ inv[i].resp.body.error.tag = "absent"

----------------------------------------------------------------------------
(* C7 *)

\* The response with which GenerateCode succeeds.
Good(resp) ==
    /\ resp.read
    /\ resp.StatusCode = StatusOK
    /\ Parses(resp.body)
    /\ ~HasErrorObject(resp.body)
    /\ HasChoices(resp.body)

\* C7: GenerateCode returns no error exactly when the response was read, had
\* status 200, parsed, held no error object and a non-empty choices list; the
\* text is then the first choice's content as it is, and on every failure the
\* text is empty.
C7_SuccessIffGoodResponse ==
    \A i \in Goroutines :
        Returned(inv[i]) =>
            /\ ~Failed(inv[i]) <=> Good(inv[i].resp)
            /\ ~Failed(inv[i]) => inv[i].text = inv[i].resp.body.choices.items[1]
            /\ Failed(inv[i]) => inv[i].text = ""

\* A success whose first choice has surrounding whitespace and whose second
\* choice differs.
C7_Witness ==
    \E i \in Goroutines :
        /\ Returned(inv[i]) /\ ~Failed(inv[i])
        /\ inv[i].resp.body.choices.items = <<" x ", "">>
        /\ inv[i].text = " x "

----------------------------------------------------------------------------
(* C8 *)

\* C8: a return without an error for a non-empty prompt has a non-empty text.
C8_SuccessTextNonEmpty ==
    \A i \in Goroutines :
        Returned(inv[i]) /\ ~Failed(inv[i]) /\ inv[i].prompt # <<>> =>
            inv[i].text # ""

----------------------------------------------------------------------------
(* C9 *)

\* C9: once the caller's context is done (cancelled, or its deadline passed)
\* while the call is outstanding, GenerateCode eventually returns a transport
\* failure; and it never returns a success under a cancelled context.
C9_CancelAborts ==
    /\ \A i \in Callers :
          (Outstanding(inv[i]) /\ CtxDone(inv[i].ctx, inv[i].elapsed))
              ~> (Returned(inv[i]) /\ inv[i].err.kind \in {"call", "read"})
    /\ [](\A i \in Callers :
             Returned(inv[i]) /\ inv[i].ctx.cancelled =>
                 inv[i].err.kind \in {"call", "read"} /\ inv[i].text = "")

\* A call whose context was cancelled after the provider's status had arrived
\* returned the failure of the read, with the context as its cause.
C9_Witness ==
    \E i \in Callers :
        /\ Returned(inv[i]) /\ inv[i].ctx.cancelled
        /\ inv[i].resp.StatusCode = StatusOK
        /\ inv[i].err = ErrRead("context")

----------------------------------------------------------------------------
(* C10 *)

\* C10: no call of a client NewOpenAIClient returned is outstanding for more
\* than 60 seconds, whatever the caller's context.
C10_TimeoutIsHardBound ==
    \A i \in Goroutines :
        clientState = "ready" /\ Outstanding(inv[i]) =>
            inv[i].elapsed <= ClientTimeout

\* C10 holds of the clients of the NewOpenAIClient at lines 74-90, whose
\* Timeout is 60 seconds: the violation is the other constructor's.
C10_HoldsWithClientTimeout ==
    \A i \in Goroutines :
        client.httpClient.Timeout = ClientTimeout /\ Outstanding(inv[i]) =>
            inv[i].elapsed <= ClientTimeout

----------------------------------------------------------------------------
(* C11 *)

\* C11: NewOpenAIClient called with an empty key panics and leaves no client,
\* whatever the model; called with a key it returns a client that holds this
\* key.  So GenerateCode never runs on a client with an empty key, and every
\* request out carries the key given at construction.
C11_EmptyKeyPanics ==
    /\ clientState = "panicked" <=> (clientState # "none" /\ newArgs.apiKey = "")
    /\ clientState = "panicked" =>
          client = NoClient /\ \A i \in Goroutines : inv[i] = Idle
    /\ clientState = "ready" =>
          client.apiKey = newArgs.apiKey /\ client.apiKey # ""
    /\ \A i \in Goroutines :
          /\ inv[i].pc # "idle" => clientState = "ready" /\ client.apiKey # ""
          /\ Outstanding(inv[i]) =>
                inv[i].req.header.Authorization = <<"Bearer ", newArgs.apiKey>>

\* The NewOpenAIClient of lines 74-90 was called with an empty key and a
\* model, and has panicked.
C11_Witness ==
    /\ clientState = "panicked"
    /\ newArgs = [which |-> "NewOpenAIClient", apiKey |-> "",
                  model |-> "gpt-3.5-turbo"]

----------------------------------------------------------------------------
(* C12: concurrent invocations on one client *)

\* The inputs of the concurrent specification: two prompts, a context without
\* and one with a deadline, a good and a bad status, and three bodies (a
\* choice, a provider error, text that is not JSON).
PromptsConc == {<<"a">>, <<"<">>}
ContextsConc ==
    {Background, [nil |-> FALSE, deadline |-> TestDeadline, cancelled |-> FALSE]}
StatusesConc == {StatusOK, 500}
BodiesConc ==
    {[kind |-> "object",
      choices |-> [tag |-> "list", items |-> <<" x ">>],
      error |-> NoFields.error],
     [kind |-> "object",
      choices |-> NoFields.choices,
      error |-> [tag |-> "object", message |-> "quota"]],
     [kind |-> "text", choices |-> NoFields.choices, error |-> NoFields.error]}

StepConc(i) ==
    \/ \E prompt \in PromptsConc, ctx \in ContextsConc : Call(i, prompt, ctx)
    \/ \E cause \in {"network", "context", "timeout"} : DoFails(i, cause)
    \/ \E status \in StatusesConc : DoReturns(i, status)
    \/ \E cause \in {"network", "context", "timeout"} : ReadFails(i, cause)
    \/ \E body \in BodiesConc : ReadReturns(i, body)
    \/ Return(i)
    \/ Cancel(i)
    \/ Tick(i)

\* Every goroutine calls GenerateCode on the one client, in any interleaving.
NextConc ==
    \/ \E which \in Constructors, apiKey \in ApiKeys, model \in Models :
          Construct(which, apiKey, model)
    \/ \E i \in Goroutines : StepConc(i)

SpecConc == Init /\ [][NextConc]_vars

\* The request and the result of g are those of g's own prompt and response
\* and of the client.
OwnResult(g) ==
    /\ Outstanding(g) =>
          /\ SentMessages(g.req) =
                << [role |-> "system", content |-> systemPrompt],
                   [role |-> "user", content |-> ToValidUTF8(g.prompt)] >>
          /\ g.req.body.model = client.model
          /\ g.req.header.Authorization = <<"Bearer ", client.apiKey>>
    /\ Returned(g) /\ ~Failed(g) =>
          Good(g.resp) /\ g.text = g.resp.body.choices.items[1]
    /\ Returned(g) /\ Failed(g) => ~Good(g.resp) /\ g.text = ""
    /\ Returned(g) /\ g.resp.read /\ g.resp.StatusCode # StatusOK =>
          g.err = ErrStatus(g.resp.StatusCode, g.resp.body)

\* C12: in every interleaving of GenerateCode invocations on one client, no
\* step changes the client once it is constructed (apiKey, model and HTTP
\* client stay those of the construction), a step changes the invocation of
\* one goroutine only, and every invocation's request and result are those of
\* its own prompt and its own response.
C12_ClientUnchanged ==
    /\ [][clientState = "ready" =>
             /\ client' = client /\ clientState' = "ready"
             /\ \A i, j \in Goroutines :
                   i # j /\ inv[i]' # inv[i] => inv[j]' = inv[j]]_vars
    /\ [](clientState = "ready" =>
             /\ client.apiKey = newArgs.apiKey
             /\ client.httpClient.Timeout =
                   IF newArgs.which = "NewOpenAIClient" THEN ClientTimeout ELSE 0
             /\ \A i \in Goroutines : OwnResult(inv[i]))

\* Two invocations that overlapped have both returned on a client of the
\* first constructor: one with its first choice, the other, of another
\* prompt, with the status error of its own response.
C12_Witness ==
    /\ newArgs.which = "NewOpenAIClient"
    /\ client.httpClient.Timeout = ClientTimeout
    /\ Returned(inv["g1"]) /\ inv["g1"].prompt = <<"a">>
    /\ inv["g1"].text = " x " /\ ~Failed(inv["g1"])
    /\ Returned(inv["g2"]) /\ inv["g2"].prompt = <<"<">>
    /\ inv["g2"].err.kind = "status" /\ inv["g2"].resp.StatusCode = 500

====
